---------------------------- MODULE Spec2Model ----------------------------
(***************************************************************************)
(* Routing and handoff between agents in the three example programs of     *)
(* the repository:                                                         *)
(*   "command"    examples/router_handoff_command.py  (Strategy A: the     *)
(*                router returns a structured decision and a Command)      *)
(*   "tools"      core/workflow.py + examples/router_handoff_tools.py      *)
(*                (Strategy B: the router is a tool-calling agent whose    *)
(*                transfer_to_<agent> tools hand the turn to an agent)     *)
(*   "supervisor" 03_agent_handoff_tools.py (agents are tools of a         *)
(*                supervisor built by create_react_agent)                  *)
(* One behaviour runs one program: Init picks it.  A user turn is the      *)
(* execution of the compiled graph by app.invoke: the input is written to  *)
(* the thread's checkpoint, then one node runs per superstep until no node *)
(* is left, a node raises, or the recursion limit is reached.              *)
(***************************************************************************)
EXTENDS Integers, Sequences, FiniteSets, TLC

(* ------------------------------ bounds --------------------------------- *)

\* user turns submitted in one behaviour
MaxTurns == 2

\* transfer_to_<agent> calls the router model may emit in one generation
MaxTransfers == 2

\* agent-tool calls the supervisor model may emit in one generation
MaxCalls == 4

\* register_agent calls made on one registry
MaxRegistrations == 4

\* messages of a thread handed to a node
MaxHistory == 5

(* ------------------------- program constants --------------------------- *)

\* recursion_limit passed to app.invoke by the CLI loops
RecursionLimit == 10

\* remaining_steps put into the supervisor's input state
RemainingStepsInput == 10

\* messages[-3:]: the messages of the thread the router and its agents send
\* to the model
ContextWindow == 3

Programs == {"command", "tools", "supervisor"}

\* thread ids: the CLI loop's fixed thread and one more (the test uses its own)
Threads == {"conversation-1", "test-basic-support"}

Agents == {"support_agent", "research_agent", "manager_agent"}

END == "__end__"

\* the name no node, agent or label has
None == "none"

\* Mutant of NextAgentLabels: the schema also admits a label no agent has.
NextAgentLabelsWithBilling ==
    {"support_agent", "research_agent", "manager_agent", "billing_agent", "__end__"}

\* NextAgent.next_agent: Literal["support_agent", "research_agent",
\* "manager_agent", "__end__"]
NextAgentLabels == {"support_agent", "research_agent", "manager_agent", "__end__"}

\* the labels the router's system prompt tells the model to route to
PromptLabels == {"support_agent", "research_agent", "manager_agent", "__end__"}

\* the nodes create_workflow adds to the command graph
CommandNodes == {"router", "support_agent", "research_agent", "manager_agent"}

\* what the decision service may send back: a label of the schema, a label
\* outside it, or no answer at all (the call raises)
ServiceReplies ==
    [kind : {"label"}, label : NextAgentLabels \cup {"billing_agent"}, calls : {<<>>}]
        \cup {[kind |-> "raise", label |-> None, calls |-> <<>>]}

\* label.replace("_", " ").title()
Title(label) ==
    CASE label = "support_agent"  -> "Support Agent"
      [] label = "research_agent" -> "Research Agent"
      [] label = "manager_agent"  -> "Manager Agent"
      [] OTHER                    -> label

\* create_agent("Support Agent", ...) is added as node "support_agent", etc.
AgentNodeName(node) ==
    CASE node = "support_agent"  -> "Support Agent"
      [] node = "research_agent" -> "Research Agent"
      [] node = "manager_agent"  -> "Manager Agent"
      [] OTHER                   -> None

(* ------------------------------ messages ------------------------------- *)

NoId == 0

HumanMessage == [id |-> NoId, type |-> "human", name |-> None]

AIMessage(name) == [id |-> NoId, type |-> "ai", name |-> name]

ToolMessage(name) == [id |-> NoId, type |-> "tool", name |-> name]

SystemMessage == [id |-> NoId, type |-> "system", name |-> None]

RECURSIVE MaxId(_)
MaxId(msgs) ==
    IF msgs = <<>> THEN 0
    ELSE LET rest == MaxId(Tail(msgs))
         IN  IF Head(msgs).id > rest THEN Head(msgs).id ELSE rest

\* Mutant of add_messages: the channel is declared without a reducer, so an
\* update replaces the list.
replace_messages(left, right) == right

\* Mutant of add_messages: the channel is reduced by operator.add, plain
\* concatenation.
concat_messages(left, right) == left \o right

\* the reducer of the messages channel: a message without an id gets a fresh
\* one, a message whose id is already in the list replaces that entry in
\* place, any other message is appended
RECURSIVE add_messages(_, _)
add_messages(left, right) ==
    IF right = <<>> THEN left
    ELSE LET m0  == Head(right)
             m   == IF m0.id = NoId THEN [m0 EXCEPT !.id = MaxId(left) + 1] ELSE m0
             idx == {i \in DOMAIN left : left[i].id = m.id}
         IN  add_messages(
                 IF idx = {} THEN Append(left, m)
                 ELSE [left EXCEPT ![CHOOSE i \in idx : TRUE] = m],
                 Tail(right))

\* the ids of the messages of a list
Ids(msgs) == {msgs[i].id : i \in DOMAIN msgs}

IsAI(m) == m.type = "ai"

IsHuman(m) == m.type = "human"

\* the reducer of the current_agent channel
update_current_agent(left, right) == right

(* ----------------------- registry: core/registry.py -------------------- *)

\* the names a caller may register or look up
Names == Agents \cup {"billing_agent"}

\* AgentConfig: a name and the rest of the descriptor (two texts are enough
\* to tell a descriptor from the one that replaced it)
AgentConfig(name, description) == [name |-> name, description |-> description]

Descriptions == {"default", "other"}

AgentConfigs == {AgentConfig(n, d) : n \in Names, d \in Descriptions}

\* agents: dict[str, AgentConfig], a dict in the order its keys were first
\* inserted: the sequence of its items
Item(key, value) == [key |-> key, value |-> value]

\* AgentRegistry(): agents = {}
AgentRegistry == <<>>

\* Mutant of register_agent: the key is deleted before it is set, so a name
\* registered again moves to the end.
register_agent_last(agents, config) ==
    Append(SelectSeq(agents, LAMBDA item : item.key # config.name),
           [key |-> config.name, value |-> config])

\* self.agents[config.name] = config: the value of a key that is present is
\* replaced where the key stands, a new key goes to the end
register_agent(agents, config) ==
    IF \E i \in DOMAIN agents : agents[i].key = config.name
    THEN [i \in DOMAIN agents |->
              IF agents[i].key = config.name THEN Item(config.name, config) ELSE agents[i]]
    ELSE Append(agents, Item(config.name, config))

\* list(self.agents.keys())
get_agent_names(agents) == [i \in DOMAIN agents |-> agents[i].key]

\* what dict.get returns for a key that is absent
NoConfig == AgentConfig(None, None)

\* self.agents.get(name)
get_agent_config(agents, name) ==
    IF \E i \in DOMAIN agents : agents[i].key = name
    THEN agents[CHOOSE i \in DOMAIN agents : agents[i].key = name].value
    ELSE NoConfig

\* the registry of the tools example: three register_agent calls
create_default_registry ==
    register_agent(
        register_agent(
            register_agent(AgentRegistry, AgentConfig("support_agent", "default")),
            AgentConfig("research_agent", "default")),
        AgentConfig("manager_agent", "default"))

\* the elements of a list
Range(seq) == {seq[i] : i \in DOMAIN seq}

(* --------------------------- the input line ---------------------------- *)

\* the lines typed at the prompt, as sequences of characters
Lines ==
    { <<"q", "u", "i", "t">>, <<" ", "Q", "u", "I", "t", " ">>,
      <<"E", "X", "I", "T">>, <<"q">>, <<"Q", " ">>,
      <<>>, <<" ", " ">>,
      <<"h", "i">>, <<" ", "h", "i", " ">> }

\* str.strip()
RECURSIVE LStrip(_)
LStrip(s) == IF s # <<>> /\ Head(s) = " " THEN LStrip(Tail(s)) ELSE s

RECURSIVE RStrip(_)
RStrip(s) ==
    IF s # <<>> /\ s[Len(s)] = " " THEN RStrip(SubSeq(s, 1, Len(s) - 1)) ELSE s

Strip(s) == RStrip(LStrip(s))

LowerChar(c) ==
    CASE c = "Q" -> "q" [] c = "U" -> "u" [] c = "I" -> "i" [] c = "T" -> "t"
      [] c = "E" -> "e" [] c = "X" -> "x" [] OTHER -> c

\* Mutant of Lower: the line is compared as typed.
LowerNot(s) == s

\* str.lower()
Lower(s) == [i \in DOMAIN s |-> LowerChar(s[i])]

ExitCommands == { <<"q", "u", "i", "t">>, <<"e", "x", "i", "t">>, <<"q">> }

\* no line was read: before the first prompt, and for a turn that was not
\* typed at the prompt
NoLine == <<"EOF">>

(* ------------------------------- state --------------------------------- *)

VARIABLES
    program,    \* which example program runs
    loop,       \* the CLI loop: "reading" a line, in a "turn", or "exited"
    store,      \* the checkpointer: thread id -> the thread's channels
    turns,      \* user turns submitted so far
    tid,        \* thread of the turn in progress (or of the last one)
    next,       \* the node the graph runs next, None when none is left
    steps,      \* supersteps run in the turn
    ran,        \* the nodes run in the turn, in order
    response,   \* the decision the router got in the turn
    outcome,    \* of the turn: "running", "done", or the error raised
    before,     \* the thread's checkpoint when the turn was submitted
    writes,     \* writes to the current_agent channel in the turn
    pending,    \* tool calls of the last generation not yet executed
    activations,\* agent invocations in the turn
    reply,      \* the last agent invocation: which agent, and how it ended
    log,        \* the lines the program logged in the turn
    registry,   \* the agents dict of the program's AgentRegistry
    registered, \* the configs passed to register_agent so far, in order
    found,      \* the last get_agent_config call: the name and what it gave
    line,       \* the line last read at the prompt, as input() returned it
    running,    \* agent-tool calls that were started and have not returned
    injected,   \* current_agent of the state dict handed to the running tools
    prompt,     \* the messages of the last model.invoke of a router or agent
    finished    \* per thread, the record of its last finished turn

\* the registry and the record of the calls made on it
regvars == <<registry, registered, found>>

\* the variables of the conversation loop, but for the line read
loopvars == <<program, loop, store, turns, tid, next, steps, ran, response,
              outcome, before, writes, pending, activations, reply, log, running,
              injected, prompt, finished>>

vars == <<program, loop, store, turns, tid, next, steps, ran, response,
          outcome, before, writes, pending, activations, reply, log, regvars,
          line, running, injected, prompt, finished>>

\* the channels a thread has before its first turn
EmptyThread == [messages |-> <<>>, current_agent |-> "", remaining_steps |-> 0]

NoResponse == [kind |-> None, label |-> None, calls |-> <<>>]

NoAgentReply == [agent |-> None, kind |-> None]

\* no model.invoke was made in the turn
NoPrompt == [node |-> None, current_agent |-> None, messages |-> <<>>]

\* the thread had no turn yet
NoTurn ==
    [before |-> EmptyThread, response |-> NoResponse, reply |-> NoAgentReply,
     outcome |-> None, after |-> EmptyThread]

\* no get_agent_config call was made yet
NoLookup == [name |-> None, result |-> NoConfig, raised |-> FALSE]

\* a logged line: its kind, the value it shows (the current agent) and the
\* message it prints; which agent an "activated" or "agent_error" line is
\* about is recorded in reply
LogEntry(kind, value, id) == [kind |-> kind, value |-> value, id |-> id]

Init ==
    /\ program \in Programs
    /\ loop = "reading"
    /\ store = [t \in Threads |-> EmptyThread]
    /\ turns = 0
    /\ tid = "conversation-1"
    /\ next = None
    /\ steps = 0
    /\ ran = <<>>
    /\ response = NoResponse
    /\ outcome = "done"
    /\ before = EmptyThread
    /\ writes = 0
    /\ pending = 0
    /\ activations = 0
    /\ reply = NoAgentReply
    /\ log = {}
    /\ registry = create_default_registry
    /\ registered = [i \in DOMAIN registry |-> registry[i].value]
    /\ found = NoLookup
    /\ line = NoLine
    /\ running = 0
    /\ injected = None
    /\ prompt = NoPrompt
    /\ finished = [t \in Threads |-> NoTurn]

(* ------------------------------ the graphs ----------------------------- *)

\* set_entry_point("router"); create_react_agent starts at its model node
EntryPoint(p) == IF p = "supervisor" THEN "agent" ELSE "router"

\* Mutant of Edges: every agent has an edge back to the router.
EdgesBackToRouter(p) ==
    CASE p = "supervisor" -> {<<"agent", "post_model_hook">>, <<"tools", "agent">>}
      [] OTHER            -> {<<a, "router">> : a \in Agents}

\* the edges added to each graph.  The command graph adds none: its agents
\* are reached by the router's Command only and have no way out.
Edges(p) ==
    CASE p = "command"    -> {}
      [] p = "tools"      -> {<<a, END>> : a \in Agents}
      [] p = "supervisor" -> {<<"agent", "post_model_hook">>, <<"tools", "agent">>}

\* where the graph goes after a node that returned no goto: along the node's
\* edge, and to the end when it has none
Successor(p, node) ==
    IF \E e \in Edges(p) : e[1] = node
    THEN (CHOOSE e \in Edges(p) : e[1] = node)[2]
    ELSE END

\* thread_id of main(): one thread for the whole loop
MainThread == "conversation-1"

\* the threads each program's callers use: the CLI loops use one fixed
\* thread; the command graph is also invoked by the test on its own threads
ThreadsOf(p) == IF p = "command" THEN Threads ELSE {"conversation-1"}

\* The supervisor is explored for the first turn of a thread: every turn of
\* it starts from the same input (system prompt, user message, "Supervisor",
\* remaining_steps) on top of a history that only lengthens the prompt.
FirstTurnOnly(p) == p = "supervisor"

\* the state main() hands to app.invoke
InputMessages(p) ==
    IF p = "supervisor" THEN <<SystemMessage, HumanMessage>> ELSE <<HumanMessage>>

InputAgent(p) ==
    CASE p = "command"    -> "Support Agent"
      [] p = "supervisor" -> "Supervisor"
      [] OTHER            -> None

\* app.invoke's first act: the input is applied to the thread's channels
\* through their reducers and saved as the thread's checkpoint, before any
\* node runs.  The tools graph has a messages channel only.
ApplyInput(p, thread) ==
    [ messages        |-> add_messages(thread.messages, InputMessages(p)),
      current_agent   |-> IF InputAgent(p) = None THEN thread.current_agent
                          ELSE update_current_agent(thread.current_agent, InputAgent(p)),
      remaining_steps |-> IF p = "supervisor" THEN RemainingStepsInput
                          ELSE thread.remaining_steps ]

\* the graph moves on to `target` (END: the turn is over)
GoTo(target) ==
    /\ next' = IF target = END THEN None ELSE target
    /\ outcome' = IF target = END THEN "done" ELSE "running"

\* a node raised: the exception leaves app.invoke
Raise(error) ==
    /\ next' = None
    /\ outcome' = error

\* a superstep may start: the turn is running at `node` within the limit
CanRun(node) ==
    /\ loop = "turn"
    /\ outcome = "running"
    /\ next = node
    /\ steps < RecursionLimit

(* ----------------------------- the CLI loop ---------------------------- *)

\* user_input.lower() in ["quit", "exit", "q"]
ExitCommand ==
    /\ loop = "reading"
    /\ \E l \in Lines :
          /\ Lower(Strip(l)) \in ExitCommands
          /\ line' = l
    /\ loop' = "exited"
    /\ UNCHANGED <<regvars, running, injected, prompt, finished, program, store, turns, tid, next, steps, ran, response,
                   outcome, before, writes, pending, activations, reply, log>>

\* if not user_input: continue
EmptyInput ==
    /\ loop = "reading"
    /\ \E l \in Lines :
          /\ Lower(Strip(l)) \notin ExitCommands
          /\ Strip(l) = <<>>
          /\ line' = l
    /\ UNCHANGED <<regvars, loopvars>>

\* Mutant of Invoke: the checkpointer ignores the thread id, every run reads
\* and writes one checkpoint.
InvokeSharedThread(t) ==
    /\ tid' = t
    /\ before' = store["conversation-1"]
    /\ store' = [store EXCEPT !["conversation-1"] = ApplyInput(program, @)]
    /\ loop' = "turn"
    /\ turns' = turns + 1
    /\ next' = EntryPoint(program)
    /\ outcome' = "running"
    /\ steps' = 0
    /\ ran' = <<>>
    /\ response' = NoResponse
    /\ writes' = 1
    /\ pending' = 0
    /\ activations' = 0
    /\ reply' = NoAgentReply
    /\ log' = {}
    /\ running' = 0
    /\ injected' = None
    /\ prompt' = NoPrompt
    /\ UNCHANGED <<regvars, program, finished>>

\* app.invoke(state, config) under thread id t: the input is checkpointed
\* and the run starts at the entry point
Invoke(t) ==
    /\ FirstTurnOnly(program) => store[t] = EmptyThread
    /\ tid' = t
    /\ before' = store[t]
    /\ store' = [store EXCEPT ![t] = ApplyInput(program, store[t])]
    /\ loop' = "turn"
    /\ turns' = turns + 1
    /\ next' = EntryPoint(program)
    /\ outcome' = "running"
    /\ steps' = 0
    /\ ran' = <<>>
    /\ response' = NoResponse
    /\ writes' = IF InputAgent(program) = None THEN 0 ELSE 1
    /\ pending' = 0
    /\ activations' = 0
    /\ reply' = NoAgentReply
    /\ log' = {}
    /\ running' = 0
    /\ injected' = None
    /\ prompt' = NoPrompt
    /\ UNCHANGED <<regvars, program, finished>>

\* any other line: app.invoke(state, {**config, "recursion_limit": 10}) on
\* the thread main() fixed before the loop
SubmitTurn ==
    /\ loop = "reading"
    /\ turns < MaxTurns
    /\ \E l \in Lines :
          /\ Lower(Strip(l)) \notin ExitCommands
          /\ Strip(l) # <<>>
          /\ line' = l
    /\ Invoke(MainThread)

\* test_handoff: the command graph invoked with a scenario's message under
\* the scenario's own thread id
test_handoff ==
    /\ program = "command"
    /\ loop = "reading"
    /\ turns < MaxTurns
    /\ line' = NoLine
    /\ \E t \in ThreadsOf(program) \ {MainThread} : Invoke(t)

(* ---------------- Strategy A: router_handoff_command.py ---------------- *)

\* Mutant of LastK: messages[:k], the window is taken from the start.
FirstK(msgs, k) ==
    IF Len(msgs) <= k THEN msgs ELSE SubSeq(msgs, 1, k)

\* messages[-k:]: the last k messages, all of them when there are fewer
LastK(msgs, k) ==
    IF Len(msgs) <= k THEN msgs ELSE SubSeq(msgs, Len(msgs) - k + 1, Len(msgs))

\* what the router sends to the model: the system prompt, which names
\* state.get("current_agent", "support_agent"), and messages[-3:]
RouterPrompt(thread) ==
    [ node          |-> "router",
      current_agent |-> IF thread.current_agent = "" THEN "support_agent"
                        ELSE thread.current_agent,
      messages      |-> <<SystemMessage>> \o LastK(thread.messages, ContextWindow) ]

\* what agent_node sends to the model: [system_msg] + messages[-3:]
AgentPrompt(node, thread) ==
    [ node          |-> node,
      current_agent |-> None,
      messages      |-> <<SystemMessage>> \o LastK(thread.messages, ContextWindow) ]

\* Mutant of Validates: next_agent declared as a plain str.
ValidatesAnyLabel(rep) == rep.kind = "label"

\* with_structured_output(NextAgent): a reply whose label is not one of the
\* Literal's values does not validate, and model.invoke raises
Validates(rep) == rep.kind = "label" /\ rep.label \in NextAgentLabels

\* Mutant of RouterCommand: the router keeps the conversation with the
\* default agent unless told to end.
RouterCommandDefault(rep) ==
    IF rep.label = "__end__"
    THEN [goto |-> END, update |-> None]
    ELSE [goto |-> "support_agent", update |-> Title("support_agent")]

\* Mutant of RouterCommand: the end condition is not handled.
RouterCommandNoEnd(rep) ==
    IF rep.label = "__end__"
    THEN [goto |-> "support_agent", update |-> Title("support_agent")]
    ELSE [goto |-> rep.label, update |-> Title(rep.label)]

\* Mutant of RouterCommand: the router follows the decision on the first
\* turn the process serves and afterwards keeps to the support agent.
RouterCommandByTurn(rep) ==
    IF rep.label = "__end__"
    THEN [goto |-> END, update |-> None]
    ELSE IF turns = 1
    THEN [goto |-> rep.label, update |-> Title(rep.label)]
    ELSE [goto |-> "support_agent", update |-> Title("support_agent")]

\* the Command the router returns for a validated reply: Command(goto=END),
\* or Command(goto=next_agent, update={"current_agent": title of next_agent})
RouterCommand(rep) ==
    IF rep.label = "__end__"
    THEN [goto |-> END, update |-> None]
    ELSE [goto |-> rep.label, update |-> Title(rep.label)]

\* the router node
router ==
    /\ program = "command"
    /\ CanRun("router")
    /\ prompt' = RouterPrompt(store[tid])
    /\ \E rep \in ServiceReplies :
          /\ response' = rep
          /\ IF ~Validates(rep)
             THEN /\ Raise(IF rep.kind = "raise" THEN "ServiceError" ELSE "ValidationError")
                  /\ UNCHANGED <<store, writes>>
             ELSE LET cmd == RouterCommand(rep)
                  IN  /\ GoTo(cmd.goto)
                      /\ IF cmd.update = None
                         THEN UNCHANGED <<store, writes>>
                         ELSE /\ store' = [store EXCEPT ![tid].current_agent =
                                      update_current_agent(@, cmd.update)]
                              /\ writes' = writes + 1
    /\ steps' = steps + 1
    /\ ran' = Append(ran, "router")
    /\ UNCHANGED <<regvars, line, running, injected, finished,
                   program, loop, turns, tid, before, pending, activations, reply, log>>

\* what an agent's model.invoke may do
Generations == {"response", "raise"}

\* agent_node of create_agent: no handler around model.invoke
agent_node ==
    /\ program = "command"
    /\ next \in Agents
    /\ CanRun(next)
    /\ prompt' = AgentPrompt(next, store[tid])
    /\ \E gen \in Generations :
          IF gen = "raise"
          THEN /\ Raise("AgentError")
               /\ reply' = [agent |-> next, kind |-> "raise"]
               /\ UNCHANGED <<store, writes>>
          ELSE /\ GoTo(Successor(program, next))
               /\ reply' = [agent |-> next, kind |-> "response"]
               /\ store' = [store EXCEPT
                     ![tid].messages = add_messages(@, <<AIMessage(AgentNodeName(next))>>),
                     ![tid].current_agent = update_current_agent(@, AgentNodeName(next))]
               /\ writes' = writes + 1
    /\ steps' = steps + 1
    /\ ran' = Append(ran, next)
    /\ activations' = activations + 1
    /\ UNCHANGED <<regvars, line, running, injected, finished,
                   program, loop, turns, tid, response, before, pending, log>>

(* ------- Strategy B: core/workflow.py, router_handoff_tools.py --------- *)

\* name = f"transfer_to_{agent_name}"
TransferName(agent) ==
    CASE agent = "support_agent"  -> "transfer_to_support_agent"
      [] agent = "research_agent" -> "transfer_to_research_agent"
      [] agent = "manager_agent"  -> "transfer_to_manager_agent"
      [] agent = "billing_agent"  -> "transfer_to_billing_agent"

\* the transfer calls of one generation of the router model, in the order
\* the model made them
TransferSeqs == UNION {[1..n -> Agents] : n \in 0..MaxTransfers}

RouterGenerations ==
    [kind : {"calls"}, label : {None}, calls : TransferSeqs]
        \cup {[kind |-> "raise", label |-> None, calls |-> <<>>]}

\* the state of the router's own graph after its model node: the thread's
\* messages and the model's message, named after the agent ("router")
RouterState(thread) == add_messages(thread.messages, <<AIMessage("router")>>)

\* the model node of the router built by create_react_agent.  Without a
\* transfer call the router's graph ends and its messages become the update
\* of the router node, which has no edge: the turn ends there.
router_agent ==
    /\ program = "tools"
    /\ CanRun("router")
    /\ pending = 0
    /\ \E gen \in RouterGenerations :
          /\ response' = gen
          /\ IF gen.kind = "raise"
             THEN /\ Raise("ServiceError")
                  /\ steps' = steps + 1
                  /\ ran' = Append(ran, "router")
                  /\ UNCHANGED <<store, pending>>
             ELSE IF gen.calls = <<>>
             THEN /\ store' = [store EXCEPT ![tid].messages =
                                  add_messages(@, RouterState(store[tid]))]
                  /\ GoTo(Successor(program, "router"))
                  /\ steps' = steps + 1
                  /\ ran' = Append(ran, "router")
                  /\ UNCHANGED pending
             ELSE /\ pending' = Len(gen.calls)
                  /\ UNCHANGED <<store, next, outcome, steps, ran>>
    /\ UNCHANGED <<regvars, line, running, injected, prompt, finished,
                   program, loop, turns, tid, before, writes, activations, reply, log>>

\* The tools node of the router runs the transfer calls of one generation
\* as tasks of one superstep, each returning its own Command(graph=PARENT).
\* One Command leaves the router's graph; handoff_tool has no say in which,
\* and the code does not pick one: any call of the generation may be it.
ReachesParent(calls) == DOMAIN calls

\* update of the Command of handoff_tool: state["messages"] + [tool_message]
HandoffUpdate(messages, agent) == messages \o <<ToolMessage(TransferName(agent))>>

\* the tools node of the router: handoff_tool returns
\* Command(goto=agent_name, update=..., graph=Command.PARENT)
handoff_tool ==
    /\ program = "tools"
    /\ CanRun("router")
    /\ pending > 0
    /\ \E i \in ReachesParent(response.calls) :
          LET agent == response.calls[i]
          IN  /\ store' = [store EXCEPT ![tid].messages =
                     add_messages(@, HandoffUpdate(RouterState(store[tid]), agent))]
              /\ GoTo(agent)
    /\ pending' = 0
    /\ steps' = steps + 1
    /\ ran' = Append(ran, "router")
    /\ UNCHANGED <<regvars, line, running, injected, prompt, finished,
                   program, loop, turns, tid, response, before, writes,
                   activations, reply, log>>

\* what agent_function sends to the model: its system message and
\* user_messages[-1], the last HumanMessage of the thread
AgentFunctionPrompt(node, thread) ==
    [ node          |-> node,
      current_agent |-> None,
      messages      |-> <<SystemMessage>> \o LastK(SelectSeq(thread.messages, IsHuman), 1) ]

\* agent_function of create_agent_function: no handler around model.invoke;
\* without a user message it returns a string, which is no state update
agent_function ==
    /\ program = "tools"
    /\ next \in Agents
    /\ CanRun(next)
    /\ prompt' = IF Ids(SelectSeq(store[tid].messages, IsHuman)) = {} THEN prompt
                 ELSE AgentFunctionPrompt(next, store[tid])
    /\ log' = log \cup {LogEntry("activated", None, NoId)}
    /\ \E gen \in Generations :
          IF Ids(SelectSeq(store[tid].messages, IsHuman)) = {}
          THEN /\ Raise("InvalidUpdateError")
               /\ reply' = [agent |-> next, kind |-> "invalid"]
               /\ UNCHANGED store
          ELSE IF gen = "raise"
          THEN /\ Raise("AgentError")
               /\ reply' = [agent |-> next, kind |-> "raise"]
               /\ UNCHANGED store
          ELSE /\ GoTo(Successor(program, next))
               /\ reply' = [agent |-> next, kind |-> "response"]
               /\ store' = [store EXCEPT ![tid].messages =
                                add_messages(@, <<AIMessage(None)>>)]
    /\ steps' = steps + 1
    /\ ran' = Append(ran, next)
    /\ activations' = activations + 1
    /\ UNCHANGED <<regvars, line, running, injected, finished,
                   program, loop, turns, tid, response, before, writes, pending>>

(* ---------------- supervisor: 03_agent_handoff_tools.py ---------------- *)

\* what the supervisor model may do in one generation: raise, or answer
\* with some number of calls of the agent tools
SupervisorGenerations ==
    [kind : {"calls"}, label : {None}, calls : {[i \in 1..n |-> "tool"] : n \in 0..MaxCalls}]
        \cup {[kind |-> "raise", label |-> None, calls |-> <<>>]}

\* create_react_agent answers "need more steps", in place of the model's
\* tool calls, when remaining_steps < 2 and the model called tools.
\* AgentState declares remaining_steps as a plain int, so it keeps the
\* value of the input.
NeedsMoreSteps(thread, gen) == thread.remaining_steps < 2 /\ gen.calls # <<>>

\* the model node of the supervisor
supervisor_model ==
    /\ program = "supervisor"
    /\ CanRun("agent")
    /\ \E gen \in SupervisorGenerations :
          /\ response' = gen
          /\ IF gen.kind = "raise"
             THEN /\ Raise("ServiceError")
                  /\ UNCHANGED <<store, pending>>
             ELSE /\ GoTo(Successor(program, "agent"))
                  /\ store' = [store EXCEPT ![tid].messages =
                                   add_messages(@, <<AIMessage(None)>>)]
                  /\ pending' = IF NeedsMoreSteps(store[tid], gen) THEN 0
                                ELSE Len(gen.calls)
    /\ steps' = steps + 1
    /\ ran' = Append(ran, "agent")
    /\ UNCHANGED <<regvars, line, running, injected, prompt, finished,
                   program, loop, turns, tid, before, writes,
                   activations, reply, log>>

\* post_model_hook logs and returns {}; the graph then runs the tools when
\* the model's message has tool calls, and ends otherwise
post_model_hook ==
    /\ program = "supervisor"
    /\ CanRun("post_model_hook")
    /\ log' = log \cup {LogEntry("supervisor_activated", None, NoId)}
    /\ GoTo(IF pending > 0 THEN "tools" ELSE END)
    /\ injected' = IF pending > 0 THEN store[tid].current_agent ELSE injected
    /\ steps' = steps + 1
    /\ ran' = Append(ran, "post_model_hook")
    /\ UNCHANGED <<regvars, line, running, prompt, finished,
                   program, loop, store, turns, tid, response, before, writes,
                   pending, activations, reply>>

\* what a call of an agent tool returns when its model.invoke ended as gen:
\* the except branch logs and returns the agent's canned reply
ToolReply(gen) == IF gen = "raise" THEN "fallback" ELSE "response"

\* The tools node runs the calls of one generation as concurrent tasks of
\* one superstep: a call of support_agent, research_agent or manager_agent
\* starts while calls of the same generation are still in their model.invoke.
\* Which tool a call names is the model's choice, drawn when the call
\* returns; the thread keeps the type of each message, and reply which agent
\* returned last.
agent_tool_start ==
    /\ program = "supervisor"
    /\ CanRun("tools")
    /\ running < pending
    /\ running' = running + 1
    /\ log' = log \cup {LogEntry("activated", None, NoId)}
    /\ UNCHANGED <<regvars, line, injected, prompt, finished, program, loop, store, turns, tid, next, steps,
                   ran, response, outcome, before, writes, pending, activations,
                   reply>>

\* a started call returns; the node is one superstep, over when its last
\* call returned.  The tool's result becomes a ToolMessage; its assignment
\* to state["current_agent"] is to its own argument, no channel write.
agent_tool ==
    /\ program = "supervisor"
    /\ CanRun("tools")
    /\ running > 0
    /\ \E agent \in Agents, gen \in Generations :
          /\ reply' = [agent |-> agent, kind |-> ToolReply(gen)]
          /\ injected' = AgentNodeName(agent)
          /\ log' = log \cup (IF gen = "raise"
                              THEN {LogEntry("agent_error", None, NoId)} ELSE {})
    /\ store' = [store EXCEPT ![tid].messages = add_messages(@, <<ToolMessage(None)>>)]
    /\ running' = running - 1
    /\ pending' = pending - 1
    /\ activations' = activations + 1
    /\ IF pending = 1
       THEN /\ GoTo(Successor(program, "tools"))
            /\ steps' = steps + 1
            /\ ran' = Append(ran, "tools")
       ELSE UNCHANGED <<next, outcome, steps, ran>>
    /\ UNCHANGED <<regvars, line, prompt, finished, program, loop, turns, tid, response, before, writes>>

(* --------------------------- the turn's end ---------------------------- *)

\* the step that would exceed recursion_limit: GraphRecursionError
RecursionError ==
    /\ loop = "turn"
    /\ outcome = "running"
    /\ next # None
    /\ steps >= RecursionLimit
    /\ Raise("GraphRecursionError")
    /\ UNCHANGED <<regvars, line, running, injected, prompt, finished,
                   program, loop, store, turns, tid, steps, ran, response,
                   before, writes, pending, activations, reply, log>>

\* main() of the command example after app.invoke returned: every AIMessage
\* of result["messages"] is logged, then the current agent
PrintedCommand(thread) ==
    {LogEntry("message", None, i) : i \in Ids(SelectSeq(thread.messages, IsAI))}
        \cup {LogEntry("current_agent", thread.current_agent, NoId)}

IsAgentResponse(m) == m.name \in Agents

\* main() of the tools example: the messages whose name is a registered
\* agent's are logged, and when there is none the last message is
PrintedTools(thread) ==
    IF Ids(SelectSeq(thread.messages, IsAgentResponse)) # {}
    THEN {LogEntry("agent_response", None, i) : i \in Ids(SelectSeq(thread.messages, IsAgentResponse))}
    ELSE {LogEntry("last_message", None, thread.messages[Len(thread.messages)].id)}

IsTool(m) == m.type = "tool"

\* main() of the supervisor example: the messages that carry an agent's
\* "[... Agent]" tag are logged (the tools' results), and when there is none
\* the last AIMessage is; then the current agent
PrintedSupervisor(thread) ==
    (IF Ids(SelectSeq(thread.messages, IsTool)) # {}
     THEN {LogEntry("agent_response", None, i) : i \in Ids(SelectSeq(thread.messages, IsTool))}
     ELSE {LogEntry("last_message", None, MaxId(SelectSeq(thread.messages, IsAI)))})
        \cup {LogEntry("current_agent", thread.current_agent, NoId)}

Printed(p, thread) ==
    CASE p = "command"    -> PrintedCommand(thread)
      [] p = "tools"      -> PrintedTools(thread)
      [] p = "supervisor" -> PrintedSupervisor(thread)

\* the turn that ends: where its thread started, what the router was told,
\* how the agent ended, how app.invoke ended and where the thread is left
FinishedTurn ==
    [before |-> before, response |-> response, reply |-> reply,
     outcome |-> outcome, after |-> store[tid]]

\* app.invoke returned: the result is printed and the next line is read
ShowResult ==
    /\ loop = "turn"
    /\ outcome = "done"
    /\ log' = log \cup Printed(program, store[tid])
    /\ loop' = "reading"
    /\ finished' = [finished EXCEPT ![tid] = FinishedTurn]
    /\ UNCHANGED <<regvars, line, running, injected, prompt,
                   program, store, turns, tid, next, steps, ran, response,
                   outcome, before, writes, pending, activations, reply>>

\* except Exception as e: the error is logged and the next line is read
ShowError ==
    /\ loop = "turn"
    /\ outcome \notin {"running", "done"}
    /\ log' = log \cup {LogEntry("error", None, NoId)}
    /\ loop' = "reading"
    /\ finished' = [finished EXCEPT ![tid] = FinishedTurn]
    /\ UNCHANGED <<regvars, line, running, injected, prompt,
                   program, store, turns, tid, next, steps, ran, response,
                   outcome, before, writes, pending, activations, reply>>

Next ==
    \/ ExitCommand
    \/ EmptyInput
    \/ SubmitTurn
    \/ test_handoff
    \/ router
    \/ agent_node
    \/ router_agent
    \/ handoff_tool
    \/ agent_function
    \/ supervisor_model
    \/ post_model_hook
    \/ agent_tool_start
    \/ agent_tool
    \/ RecursionError
    \/ ShowResult
    \/ ShowError

Spec == Init /\ [][Next]_vars

(* ------------------ the command graph, run to the end ------------------ *)

CommandInit ==
    /\ Init
    /\ program = "command"

CommandNext ==
    \/ ExitCommand
    \/ EmptyInput
    \/ SubmitTurn
    \/ test_handoff
    \/ router
    \/ agent_node
    \/ ShowResult
    \/ ShowError

\* app.invoke is a synchronous call: a node that is due runs, its
\* model.invoke returns or raises, and main() handles what invoke gave
CommandSpec ==
    /\ CommandInit
    /\ [][CommandNext]_vars
    /\ WF_vars(router)
    /\ WF_vars(agent_node)
    /\ WF_vars(ShowResult)
    /\ WF_vars(ShowError)

(* --------------- a node run on a thread with any history --------------- *)

\* a history: user, AI and tool messages in any order, with the ids the
\* reducer gave them
Histories ==
    UNION { { [i \in 1..n |-> [id |-> i, type |-> types[i], name |-> None]] :
                types \in [1..n -> {"human", "ai", "tool"}] } : n \in 0..MaxHistory }

\* the graph is about to run its router, or an agent the router chose, on
\* a thread whose checkpoint holds some history
HistoryInit ==
    /\ program \in {"command", "tools"}
    /\ loop = "turn"
    /\ \E h \in Histories, agent \in {"Support Agent", "Research Agent"} :
          store = [t \in Threads |->
                      IF t = MainThread
                      THEN [messages |-> h, current_agent |-> agent, remaining_steps |-> 0]
                      ELSE EmptyThread]
    /\ turns = 1
    /\ tid = MainThread
    /\ next \in (IF program = "command" THEN {"router"} ELSE {}) \cup Agents
    /\ steps = 0
    /\ ran = <<>>
    /\ response = NoResponse
    /\ outcome = "running"
    /\ before = store[tid]
    /\ writes = 0
    /\ pending = 0
    /\ activations = 0
    /\ reply = NoAgentReply
    /\ log = {}
    /\ registry = create_default_registry
    /\ registered = [i \in DOMAIN registry |-> registry[i].value]
    /\ found = NoLookup
    /\ line = NoLine
    /\ running = 0
    /\ injected = None
    /\ prompt = NoPrompt
    /\ finished = [t \in Threads |-> NoTurn]

HistoryNext ==
    \/ router
    \/ agent_node
    \/ agent_function
    \/ ShowResult
    \/ ShowError

HistorySpec == HistoryInit /\ [][HistoryNext]_vars

(* ------------- the registry and the workflow built from it ------------- *)

\* Mutant of create_handoff_tool: every tool sends the turn to the support
\* agent, whatever its name says.
create_handoff_tool_to_support(agent_name, description) ==
    [name |-> TransferName(agent_name), description |-> description,
     goto |-> "support_agent"]

\* create_handoff_tool(agent_name, description): the tool's name and the
\* goto of the Command it returns
create_handoff_tool(agent_name, description) ==
    [name |-> TransferName(agent_name), description |-> description, goto |-> agent_name]

\* create_handoff_tools: one tool per item of registry.agents, in its order
create_handoff_tools(agents) ==
    [i \in DOMAIN agents |-> create_handoff_tool(agents[i].key, agents[i].value.description)]

\* create_agent_function: agent_function.__name__ = agent_config.name, which
\* add_node takes as the node's name
create_agent_function(agent_config) == agent_config.name

\* create_workflow(registry, settings): the router's tools and destinations,
\* the nodes added, the edges added and the entry point
create_workflow(agents) ==
    [ tools        |-> create_handoff_tools(agents),
      destinations |-> get_agent_names(agents),
      nodes        |-> <<"router">> \o [i \in DOMAIN agents |-> create_agent_function(agents[i].value)],
      edges        |-> {<<agents[i].key, END>> : i \in DOMAIN agents},
      entry        |-> "router" ]

\* a registry under construction, before any workflow is built from it
RegistryInit ==
    /\ program = "tools"
    /\ loop = "reading"
    /\ store = [t \in Threads |-> EmptyThread]
    /\ turns = 0
    /\ tid = "conversation-1"
    /\ next = None
    /\ steps = 0
    /\ ran = <<>>
    /\ response = NoResponse
    /\ outcome = "done"
    /\ before = EmptyThread
    /\ writes = 0
    /\ pending = 0
    /\ activations = 0
    /\ reply = NoAgentReply
    /\ log = {}
    /\ registry = AgentRegistry
    /\ registered = <<>>
    /\ found = NoLookup
    /\ line = NoLine
    /\ running = 0
    /\ injected = None
    /\ prompt = NoPrompt
    /\ finished = [t \in Threads |-> NoTurn]

\* registry.register_agent(config)
RegisterAgent ==
    /\ Len(registered) < MaxRegistrations
    /\ \E config \in {c \in AgentConfigs : c.name \in Agents} :
          /\ registry' = register_agent(registry, config)
          /\ registered' = Append(registered, config)
    /\ UNCHANGED <<loopvars, line, found>>

\* registry.get_agent_config(name): dict.get raises for no name
GetAgentConfig ==
    /\ \E name \in Names :
          found' = [name |-> name, result |-> get_agent_config(registry, name),
                    raised |-> FALSE]
    /\ UNCHANGED <<loopvars, line, registry, registered>>

RegistryNext ==
    \/ RegisterAgent
    \/ GetAgentConfig

RegistrySpec == RegistryInit /\ [][RegistryNext]_vars

(* ------------------------------ the claims ----------------------------- *)

\* the two programs whose graph has a router node and agent nodes
RouterGraph == program \in {"command", "tools"}

\* the agents the router's decision of the turn named: the label of the
\* structured decision, or the targets of the transfer calls
Selected ==
    IF program = "command"
    THEN (IF response.kind = "label" THEN {response.label} ELSE {})
    ELSE {response.calls[i] : i \in DOMAIN response.calls}

\* the messages the turn added to its thread
Added == SubSeq(store[tid].messages, Len(before.messages) + 1, Len(store[tid].messages))

\* C1: a turn starts at the router, and an agent node runs (or is next to
\* run) only right after the router, and only if the router's decision of
\* the same turn named that agent.
C1_AgentOnlyByRouting ==
    RouterGraph =>
        /\ (loop = "turn" /\ ran = <<>>) => next = "router"
        /\ ran # <<>> => ran[1] = "router"
        /\ \A i \in DOMAIN ran :
              ran[i] \in Agents => i > 1 /\ ran[i - 1] = "router" /\ ran[i] \in Selected
        /\ next \in Agents => next \in Selected /\ ran[Len(ran)] = "router"

C1_Witness ==
    /\ program = "command"
    /\ ran = <<"router", "research_agent">>
    /\ response.label = "research_agent"

\* C2: once an agent node has run, the turn is over: nothing runs after an
\* agent, the router runs at most once per turn, and no node is left to run.
C2_AgentsAreSingleShot ==
    RouterGraph =>
        /\ \A i \in DOMAIN ran : ran[i] \in Agents => i = Len(ran)
        /\ Cardinality({i \in DOMAIN ran : ran[i] = "router"}) <= 1
        /\ (ran # <<>> /\ ran[Len(ran)] \in Agents) => next = None /\ outcome # "running"

C2_Witness ==
    /\ program = "tools"
    /\ loop = "reading"
    /\ outcome = "done"
    /\ Len(ran) = 2
    /\ reply.kind = "response"

\* C3: when the Strategy-A decision is "__end__", the turn is done after the
\* router alone, no agent was invoked, and the thread holds the messages it
\* held before the turn followed by the new user message and nothing else.
C3_TerminateRunsNoAgent ==
    (program = "command" /\ response.kind = "label" /\ response.label = "__end__") =>
        /\ outcome = "done"
        /\ next = None
        /\ ran = <<"router">>
        /\ activations = 0
        /\ Len(Added) = 1
        /\ Added[1].type = "human"
        /\ SubSeq(store[tid].messages, 1, Len(before.messages)) = before.messages

C3_Witness ==
    /\ program = "command"
    /\ response.label = "__end__"
    /\ loop = "reading"
    /\ before.messages # <<>>

\* C4 (as claimed): the agent activations of one turn never exceed the
\* ceiling of 10, no turn runs more than 10 supersteps, and a turn stopped by
\* the ceiling ends with GraphRecursionError.
C4_ActivationsWithinCeiling ==
    /\ activations <= RecursionLimit
    /\ steps <= RecursionLimit
    /\ outcome = "GraphRecursionError" => steps = RecursionLimit

\* C5: a Strategy-A decision whose label is outside the schema fails the
\* turn in the router: no agent is invoked and no node is chosen in its place.
C5_InvalidLabelFailsTurn ==
    (program = "command" /\ response.kind = "label"
        /\ response.label \notin NextAgentLabels) =>
        /\ outcome = "ValidationError"
        /\ next = None
        /\ ran = <<"router">>
        /\ activations = 0

C5_Witness ==
    /\ program = "command"
    /\ response.label = "billing_agent"
    /\ loop = "reading"
    /\ LogEntry("error", None, NoId) \in log

\* C6 (as claimed): after a turn whose router decision failed, the thread's
\* checkpoint (messages and current_agent) is what it was before the turn.
C6_FailedTurnLeavesThreadUnchanged ==
    (program = "command" /\ ran = <<"router">>
        /\ outcome \in {"ServiceError", "ValidationError"}) =>
        store[tid] = before

\* C7 (as claimed): whenever an agent's generation call raised, the
\* invocation returned the agent's fallback reply, the failure was logged,
\* and no exception left the agent.
C7_AgentFailureYieldsFallback ==
    reply.kind \in {"fallback", "raise"} =>
        /\ reply.kind = "fallback"
        /\ outcome # "AgentError"
        /\ LogEntry("agent_error", None, NoId) \in log

\* C8 (as claimed): when the router's generation made transfer calls, the
\* first of them names the agent that runs, only that agent runs, and the
\* turn added one tool message, the acknowledgement of that transfer.
C8_FirstTransferDecides ==
    (program = "tools" /\ response.kind = "calls" /\ response.calls # <<>>
        /\ pending = 0) =>
        /\ next \in Agents => next = response.calls[1]
        /\ \A i \in DOMAIN ran : ran[i] \in Agents => ran[i] = response.calls[1]
        /\ activations <= 1
        /\ Len(SelectSeq(Added, IsTool)) = 1
        /\ SelectSeq(Added, IsTool)[1].name = TransferName(response.calls[1])

\* C9 (as claimed): a Strategy-B turn whose router made no transfer call runs
\* no agent, and the log of the turn says that no handoff took place.
C9_NoHandoffIsLogged ==
    (program = "tools" /\ response.kind = "calls" /\ response.calls = <<>>
        /\ loop = "reading") =>
        /\ activations = 0
        /\ \E e \in log : e.kind = "no_handoff"

\* C10 (as claimed): in a Strategy-A turn in which the selected agent
\* replied, the current_agent channel was written exactly once.
C10_CurrentAgentWrittenOnce ==
    (program = "command" /\ outcome = "done" /\ reply.kind = "response") =>
        writes = 1

\* C11: on an empty thread, a completed Strategy-A turn whose decision was
\* support_agent ran the router and then that agent, left current_agent at
\* the agent's display name, and left the thread holding the user message
\* followed by one AIMessage of that agent, and nothing else.
C11_SupportScenario ==
    (program = "command" /\ before = EmptyThread /\ response.kind = "label"
        /\ response.label = "support_agent" /\ outcome = "done") =>
        /\ ran = <<"router", "support_agent">>
        /\ store[tid].current_agent = "Support Agent"
        /\ Len(store[tid].messages) = 2
        /\ store[tid].messages[1].type = "human"
        /\ store[tid].messages[2] = [AIMessage("Support Agent") EXCEPT !.id = 2]

C11_Witness ==
    /\ program = "command"
    /\ loop = "reading"
    /\ before = EmptyThread
    /\ response.label = "support_agent"
    /\ outcome = "done"
    /\ reply = [agent |-> "support_agent", kind |-> "response"]

\* the messages of `after` that follow the first Len(msgs) ones
Suffix(msgs, after) == SubSeq(after, Len(msgs) + 1, Len(after))

\* C12: in every step, of every thread, the messages held before the step
\* are the first messages after it, in the same order, and no message is in
\* the thread twice; the step of the handoff tool adds to the thread the
\* router's message and the acknowledgement of the transfer, and no more.
C12_AppendOnly ==
    [][ /\ \A t \in Threads :
              /\ Len(store'[t].messages) >= Len(store[t].messages)
              /\ SubSeq(store'[t].messages, 1, Len(store[t].messages)) = store[t].messages
              /\ Cardinality(Ids(store'[t].messages)) = Len(store'[t].messages)
        /\ (program = "tools" /\ pending > 0 /\ pending' = 0) =>
              LET new == Suffix(store[tid].messages, store'[tid].messages)
              IN  /\ Len(new) = 2
                  /\ new[1].type = "ai" /\ new[1].name = "router"
                  /\ new[2].type = "tool" /\ new[2].name = TransferName(next')
      ]_vars

\* a handoff on a thread that already held the messages of an earlier turn
C12_Witness ==
    /\ program = "tools"
    /\ ran = <<"router">>
    /\ next \in Agents
    /\ Len(before.messages) >= 2
    /\ Len(store[tid].messages) = Len(before.messages) + 3

\* C13: the labels of the Strategy-A decision schema are the registered
\* agent names and "__end__", the prompt enumerates the same labels, every
\* label but "__end__" is a node of the command graph, and a turn whose
\* decision validated runs nodes of the graph only.
C13_LabelsAreRegisteredNames ==
    /\ NextAgentLabels = Range(get_agent_names(registry)) \cup {END}
    /\ PromptLabels = NextAgentLabels
    /\ NextAgentLabels \ {END} \subseteq CommandNodes
    /\ (program = "command" /\ Validates(response)) =>
          /\ next # None => next \in CommandNodes
          /\ Range(ran) \subseteq CommandNodes

C13_Witness ==
    /\ program = "command"
    /\ Validates(response)
    /\ response.label = "manager_agent"
    /\ ran = <<"router", "manager_agent">>
    /\ registry = create_default_registry

\* C14: whatever was registered, the workflow built from the registry gives
\* the router one tool per registered name, named transfer_to_<name> and
\* going to <name>; the tools, the router's destinations and the agent nodes
\* each list every registered name once, and no other.
C14_OneTransferPerAgent ==
    LET wf    == create_workflow(registry)
        names == get_agent_names(registry)
    IN  /\ Range(names) = {registered[i].name : i \in DOMAIN registered}
        /\ Cardinality(Range(names)) = Len(names)
        /\ Len(wf.tools) = Len(names)
        /\ \A i \in DOMAIN names :
              /\ wf.tools[i].name = TransferName(names[i])
              /\ wf.tools[i].goto = names[i]
        /\ Cardinality({wf.tools[i].name : i \in DOMAIN wf.tools}) = Len(names)
        /\ wf.destinations = names
        /\ wf.nodes = <<"router">> \o names
        /\ wf.edges = {<<n, END>> : n \in Range(names)}

\* three agents registered, one of them twice
C14_Witness ==
    /\ Len(registry) = 3
    /\ Len(registered) = 4
    /\ Len(create_workflow(registry).tools) = 3

\* the typed lines that spell quit, exit or q, in any case, spaces around
ExitLines ==
    { <<"q", "u", "i", "t">>, <<" ", "Q", "u", "I", "t", " ">>,
      <<"E", "X", "I", "T">>, <<"q">>, <<"Q", " ">> }

\* the typed lines that hold nothing but spaces
BlankLines == { <<>>, <<" ", " ">> }

\* C15: a step of the loop that reads a line ends the loop without a turn
\* when the line spells an exit command; changes nothing but the line read
\* when the line is blank; and for any other line starts one turn on the
\* main thread, whose checkpoint gains the input with one user message,
\* every other thread keeping its checkpoint.
C15_LineHandling ==
    [][ (loop = "reading" /\ line' # NoLine) =>
          IF line' \in ExitLines
          THEN /\ loop' = "exited"
               /\ UNCHANGED <<store, turns, tid, next, outcome>>
          ELSE IF line' \in BlankLines
          THEN /\ loop' = "reading"
               /\ UNCHANGED <<loopvars, regvars>>
          ELSE /\ loop' = "turn"
               /\ turns' = turns + 1
               /\ tid' = MainThread
               /\ next' = EntryPoint(program)
               /\ \A t \in Threads \ {MainThread} : store'[t] = store[t]
               /\ LET new == Suffix(store[MainThread].messages, store'[MainThread].messages)
                  IN  /\ SubSeq(store'[MainThread].messages, 1,
                                Len(store[MainThread].messages)) = store[MainThread].messages
                      /\ Len(SelectSeq(new, IsHuman)) = 1
                      /\ Len(new) = Len(InputMessages(program))
      ]_vars

\* the loop was left by " QuIt " after a turn had been submitted
C15_Witness ==
    /\ loop = "exited"
    /\ line = <<" ", "Q", "u", "I", "t", " ">>
    /\ turns = 1
    /\ store[MainThread].messages # <<>>

\* C16 (as claimed): once a turn ended with the router's "__end__", no
\* further turn is started on that thread.
C16_NoTurnAfterTermination ==
    [][ (program = "command" /\ loop = "reading" /\ response.kind = "label"
            /\ response.label = "__end__") =>
            ~(loop' = "turn" /\ tid' = tid)
      ]_vars

\* the config most recently passed to register_agent under `name`
LastRegistered(configs, name) ==
    configs[CHOOSE i \in DOMAIN configs :
                /\ configs[i].name = name
                /\ \A j \in DOMAIN configs : configs[j].name = name => j <= i]

\* C17 (as claimed): a lookup of a name that is not registered raises
\* (NotFoundError); a lookup of a registered name does not raise and gives
\* the config most recently registered under the name.
C17_LookupOfUnknownNameFails ==
    [][ found' # found =>
            IF found'.name \in Range(get_agent_names(registry))
            THEN /\ ~found'.raised
                 /\ found'.result = LastRegistered(registered, found'.name)
            ELSE found'.raised
      ]_vars

\* the names of a list in the order of their first occurrence
RECURSIVE FirstOccurrences(_)
FirstOccurrences(names) ==
    IF names = <<>> THEN <<>>
    ELSE LET init == FirstOccurrences(SubSeq(names, 1, Len(names) - 1))
             last == names[Len(names)]
         IN  IF last \in Range(init) THEN init ELSE Append(init, last)

\* C18: after any sequence of register_agent calls, the name list holds
\* each registered name once, in the order the names were first registered,
\* and each name maps to the config last registered under it; every call is
\* applied, none fails.
C18_ReRegistrationOverwrites ==
    LET names == get_agent_names(registry)
    IN  /\ names = FirstOccurrences([i \in DOMAIN registered |-> registered[i].name])
        /\ Cardinality(Range(names)) = Len(names)
        /\ \A n \in Range(names) :
              get_agent_config(registry, n) = LastRegistered(registered, n)

\* the first name registered was registered again with another descriptor,
\* after a second name
C18_Witness ==
    /\ Len(registered) = 3
    /\ registered[3].name = registered[1].name
    /\ registered[3] # registered[1]
    /\ registered[2].name # registered[1].name
    /\ Len(registry) = 2
    /\ registry[1].value = registered[3]

\* C19: a step changes the checkpoint of no thread but the one of the turn
\* in progress; a turn starts from the checkpoint stored under its own
\* thread id, and on a thread that never had a turn the history after the
\* input is the input alone.
C19_ThreadsAreIndependent ==
    [][ /\ \A t \in Threads \ {tid'} : store'[t] = store[t]
        /\ (loop = "reading" /\ loop' = "turn") =>
              /\ before' = store[tid']
              /\ Len(store'[tid'].messages) =
                     Len(store[tid'].messages) + Len(InputMessages(program))
              /\ store[tid'] = EmptyThread =>
                     Len(store'[tid'].messages) = Len(InputMessages(program))
      ]_vars

\* a turn on a second thread after a completed turn on the main thread
C19_Witness ==
    /\ program = "command"
    /\ turns = 2
    /\ tid = "test-basic-support"
    /\ Len(store[MainThread].messages) = 2
    /\ Len(store["test-basic-support"].messages) = 1
    /\ next = "router"

\* C20 (as claimed): at most one agent invocation is in progress at any
\* time, and a line is read only when the previous turn is over: no node is
\* left to run and no invocation is in progress.
C20_OneAgentAtATime ==
    /\ running <= 1
    /\ loop = "reading" => outcome # "running" /\ next = None /\ running = 0

\* C21 (as claimed): the state dict handed to the agent tools of a tools
\* node is left as it was handed over: its current_agent is the thread's.
C21_AgentsDoNotWriteState ==
    injected # None => injected = store[tid].current_agent

\* C25 (as claimed): after a supervisor turn in which an agent tool ran,
\* the result's current_agent, and the "Last Active Agent" line, name one of
\* the agents, whether the tool's model call returned or fell back.
C25_LastActiveAgentIsTheAgent ==
    (program = "supervisor" /\ loop = "reading" /\ outcome = "done"
        /\ reply.kind \in {"response", "fallback"}) =>
        /\ store[tid].current_agent \in {AgentNodeName(a) : a \in Agents}
        /\ \E a \in Agents : LogEntry("current_agent", AgentNodeName(a), NoId) \in log

C23_TurnTerminates ==
    /\ [](/\ Len(ran) <= 2
          /\ steps = Len(ran)
          /\ ran # <<>> => ran[1] = "router"
          /\ Len(ran) = 2 => ran[2] \in Agents
          /\ (loop = "turn" /\ next = None /\ Validates(response)
                 /\ reply.kind # "raise") => outcome = "done"
          /\ (loop = "turn" /\ outcome = "done") =>
                 /\ store[tid].current_agent # ""
                 /\ store[tid].messages # <<>>)
    /\ (loop = "turn") ~> (loop = "reading" /\ outcome # "running" /\ next = None)

\* a second turn on a thread with history went through router and agent
C23_Witness ==
    /\ program = "command"
    /\ loop = "reading"
    /\ outcome = "done"
    /\ turns = 2
    /\ Len(ran) = 2
    /\ before.messages # <<>>
    /\ finished[tid].after = store[tid]

\* C24 (as claimed): the current_agent the router reads on a turn is the
\* agent that replied in the thread's previous turn.
C24_RouterReadsLastActiveAgent ==
    (program = "command" /\ loop = "turn" /\ prompt.node = "router"
        /\ finished[tid].reply.kind = "response") =>
        prompt.current_agent = AgentNodeName(finished[tid].reply.agent)

\* C26: the router and the agents of the command graph send the model the
\* system prompt followed by the last min(3, n) of the thread's n messages,
\* in order; agent_function sends two messages, its system prompt and the
\* thread's last user message, whatever follows that message in the thread.
C26_ContextWindows ==
    LET msgs == before.messages
        n    == Len(msgs)
        k    == IF n < 3 THEN n ELSE 3
    IN  /\ (program = "command" /\ prompt.node # None) =>
              /\ Len(prompt.messages) = k + 1
              /\ prompt.messages[1] = SystemMessage
              /\ \A i \in 1..k : prompt.messages[i + 1] = msgs[n - k + i]
        /\ (program = "tools" /\ prompt.node # None) =>
              /\ Len(prompt.messages) = 2
              /\ prompt.messages[1] = SystemMessage
              /\ \E i \in 1..n :
                    /\ msgs[i] = prompt.messages[2]
                    /\ msgs[i].type = "human"
                    /\ \A j \in (i + 1)..n : msgs[j].type # "human"

\* the router ran on five messages, the last user message not among the
\* last three
C26_Witness ==
    /\ program = "command"
    /\ prompt.node = "router"
    /\ Len(before.messages) = 5
    /\ before.messages[2].type = "human"
    /\ \A i \in 3..5 : before.messages[i].type # "human"

\* C27 (as claimed): the messages the command CLI prints after a turn are
\* messages the turn added to the thread.
C27_PrintsOnlyNewMessages ==
    (program = "command" /\ loop = "reading" /\ outcome = "done") =>
        \A e \in log : e.kind = "message" => e.id \in Ids(Added)

\* C28 (as claimed): after a tool-handoff turn in which the agent replied,
\* the CLI shows that reply through the agent-response filter.
C28_ReplyShownAsAgentResponse ==
    (program = "tools" /\ loop = "reading" /\ outcome = "done"
        /\ reply.kind = "response") =>
        LogEntry("agent_response", None, MaxId(store[tid].messages)) \in log

\* C29 (as claimed): whenever agent_function ran and its model call did not
\* raise, the turn went on to its end and the thread gained one message,
\* also when the thread holds no user message.
C29_AgentFunctionReturnsUpdate ==
    (program = "tools" /\ ran # <<>> /\ reply.kind # "raise") =>
        /\ outcome = "done"
        /\ Len(store[tid].messages) = Len(before.messages) + 1

=============================================================================
